---------------------------- MODULE Spec2Model ----------------------------
(***************************************************************************)
(* The stock-diversification notebook: eight Cypher queries run in order   *)
(* against one Neo4j database.  The state is the property graph (Stock     *)
(* nodes, StockTradingDay nodes, NEXT_DAY and SIMILAR relationships and    *)
(* the properties the queries write), the position in the notebook and the *)
(* table the last query returns.                                           *)
(*                                                                         *)
(* Encoding of values.  A ticker symbol is a number 1..MaxName, its        *)
(* numeric order standing for the lexicographic order of the symbols.  A   *)
(* CSV field is text: BadText stands for a text that is neither a date nor *)
(* a number, a positive number for a well-formed one (for Date: the day    *)
(* number of the ISO date).  NULL is Cypher's null, an absent property.    *)
(***************************************************************************)
EXTENDS Integers, Sequences, FiniteSets, TLC

\* ---------------------------------------------------------------- bounds
\* Rows of an arbitrary (noisy) CSV file; tickers and days per ticker of a clean one.
MaxRows == 3
NumClean == 5
MaxCleanDays == 3
NumShort == 4
\* The same for the files the notebook is run on twice.
MaxRerunRows == 2
NumRerunClean == 2
MaxRerunDays == 2
\* How often the notebook is started.
MaxRuns == 2

\* ------------------------------------------------------- program constants
BadText == 0
NULL == -1
\* USING PERIODIC COMMIT without a number commits every 1000 rows.
PeriodicCommit == 1000
topK == 3
\* similarityCutoff 0.2, as the fraction CutoffNum / CutoffDen
CutoffNum == 1
CutoffDen == 5
\* collect(ticker)[..3]
topN == 3

\* A slope property: absent, the float NaN, or the number num / den.
NullSlope == [kind |-> "null", num |-> 0, den |-> 1]
NaN == [kind |-> "NaN", num |-> 0, den |-> 1]

VARIABLES
  csv,          \* the rows of the CSV file, in file order
  pc,           \* the next cell of the notebook to run
  run,          \* how many times the notebook has been started
  stocks,       \* names of the :Stock nodes
  days,         \* the :StockTradingDay nodes, in creation order (node id = position)
  next_day,     \* NEXT_DAY relationships: <<from id, to id, k>>, k-th parallel one
  close_array,  \* Stock.close_array
  similar,      \* SIMILAR relationships: [item1, item2, score, k]
  comm,         \* Louvain's working community of every Stock node
  super,        \* Louvain's node of the current level that holds each Stock node
  moved,        \* whether the current Louvain level has moved a node
  louvain,      \* Stock.louvain
  slope,        \* Stock.slope
  result,       \* the table the last cell returned: community -> potential_investments
  first         \* what the first run left, kept to compare a second run with it

vars == <<csv, pc, run, stocks, days, next_day, close_array, similar, comm, super,
          moved, louvain, slope, result, first>>


\* The sequences f over 1..n, or the functions over any finite domain, with
\* f[x] \in ch[x] for every x: one per combination of choices.
RECURSIVE FunProd(_)
FunProd(ch) ==
  LET D == DOMAIN ch
  IN IF D = {} THEN {ch}
     ELSE LET d == CHOOSE x \in D : TRUE
              rest == FunProd([x \in D \ {d} |-> ch[x]])
          IN {[x \in D |-> IF x = d THEN v ELSE g[x]] : v \in ch[d], g \in rest}

RECURSIVE SumOver(_, _)
SumOver(f, S) ==
  IF S = {} THEN 0
  ELSE LET x == CHOOSE y \in S : TRUE IN f[x] + SumOver(f, S \ {x})

Min(a, b) == IF a <= b THEN a ELSE b

\* ------------------------------------------------------------- the CSV file
\* Noisy files: every sequence of up to n rows over two tickers and an empty
\* Name field (null), two dates and an unparsable one, a numeric and a
\* non-numeric close and volume.
Names == {NULL, 1, 2}
Dates == {BadText, 1, 2}
Numbers == {BadText, 1}
Rows == [Name : Names, Date : Dates, Close : Numbers, Volume : Numbers]

RECURSIVE SeqsUpTo(_, _)
SeqsUpTo(S, n) ==
  IF n = 0 THEN {<<>>}
  ELSE LET shorter == SeqsUpTo(S, n - 1)
       IN shorter \cup {Append(s, x) : s \in {t \in shorter : Len(t) = n - 1}, x \in S}

NoisyCsvs(n) == SeqsUpTo(Rows, n) \ {<<>>}

\* Clean files: tickers 1..n on the dates 1, 2, ..., ticker i with the first
\* len closes of the i-th or the (i+1)-th sequence of the pool, the rows ticker
\* by ticker in date order.
Pool == << <<1, 2, 3>>, <<1, 3, 2>>, <<1, 2, 2>>, <<2, 3, 1>>, <<3, 2, 1>>,
           <<1, 6, 2>>, <<2, 1, 3>> >>

RECURSIVE CleanCsv(_, _)
CleanCsv(arr, n) ==
  IF n = 0 THEN <<>>
  ELSE CleanCsv(arr, n - 1) \o
       [d \in 1..Len(arr[n]) |-> [Name |-> n, Date |-> d, Close |-> arr[n][d], Volume |-> 1]]

CleanCsvs(n, len) ==
  {CleanCsv([i \in 1..n |-> SubSeq(Pool[i + o[i]], 1, Min(len, Len(Pool[i + o[i]])))], n) :
     o \in [1..n -> {0, 1}]}

\* Files with a ticker of one day: tickers 1..n as in the clean files, the
\* last of them with its first day only.
ShortCsvs(n, len) ==
  {CleanCsv([i \in 1..n |->
               SubSeq(Pool[i + o[i]], 1,
                      IF i = n THEN 1 ELSE Min(len, Len(Pool[i + o[i]])))], n) :
     o \in [1..n -> {0, 1}]}

\* ------------------------------------------------- cell fadf4253: LOAD CSV
\* Variant: every text is taken for a date.
DateAlwaysParses(text) == TRUE

\* date(text): a date, or the query fails.
DateParses(text) == text # BadText
date(text) == text
\* toFloat(text): the number, or null for a text that is no number.
toFloat(text) == IF text = BadText THEN NULL ELSE text

\* MERGE (s:Stock{name:row.Name}) raises on a null property value, and
\* date(row.Date) on a text that is no date.
RowFails(row) == row.Name = NULL \/ ~DateParses(row.Date)

\* The first row on which the query raises, or Len + 1.
FirstFailingRow(rows) ==
  IF \A i \in 1..Len(rows) : ~RowFails(rows[i]) THEN Len(rows) + 1
  ELSE CHOOSE i \in 1..Len(rows) :
         /\ RowFails(rows[i])
         /\ \A j \in 1..(i - 1) : ~RowFails(rows[j])

\* Variant: of several rows with the same (Name, Date) only the first is kept.
KeepFirstRows(rows) ==
  LET keep == {i \in 1..Len(rows) :
                 \A j \in 1..(i - 1) :
                   rows[j].Name # rows[i].Name \/ rows[j].Date # rows[i].Date}
      RECURSIVE pick(_)
      pick(i) == IF i > Len(rows) THEN <<>>
                 ELSE (IF i \in keep THEN <<rows[i]>> ELSE <<>>) \o pick(i + 1)
  IN pick(1)

\* The rows whose effects are committed: all of them, or on an error the
\* batches of PeriodicCommit rows completed before the failing row.
CommittedRows(rows) ==
  LET k == FirstFailingRow(rows)
  IN IF k > Len(rows) THEN rows
     ELSE SubSeq(rows, 1, ((k - 1) \div PeriodicCommit) * PeriodicCommit)

\* CREATE (s)-[:TRADING_DAY]->(:StockTradingDay{date, close, volume})
NewDay(row) ==
  [stock |-> row.Name, date |-> date(row.Date), close |-> toFloat(row.Close),
   volume |-> toFloat(row.Volume), index |-> NULL, labels |-> {}]

\* Variant: the days MERGEd, a day with the same properties created once only.
RECURSIVE MergeDays(_, _)
MergeDays(old, rows) ==
  IF rows = <<>> THEN old
  ELSE LET d == NewDay(Head(rows))
           same(e) == e.stock = d.stock /\ e.date = d.date /\ e.close = d.close
                      /\ e.volume = d.volume
       IN MergeDays(IF SelectSeq(old, same) = <<>> THEN Append(old, d) ELSE old, Tail(rows))

\* CREATE: one new node per row, whatever nodes exist.
CreateDays(old, rows) == old \o [i \in 1..Len(rows) |-> NewDay(rows[i])]

MergeStock(rows) == stocks \cup {rows[i].Name : i \in 1..Len(rows)}

LoadCsv ==
  /\ pc = "load"
  /\ LET rows == CommittedRows(csv)
         all == MergeStock(rows)
         prop(old) == [s \in all |-> IF s \in stocks THEN old[s] ELSE NULL]
     IN /\ stocks' = all
        /\ days' = CreateDays(days, rows)
        /\ close_array' = prop(close_array)
        /\ louvain' = prop(louvain)
        /\ slope' = [s \in all |-> IF s \in stocks THEN slope[s] ELSE NullSlope]
        /\ comm' = prop(comm)
        /\ super' = prop(super)
  /\ pc' = IF FirstFailingRow(csv) <= Len(csv) THEN "failed" ELSE "link"
  /\ UNCHANGED <<csv, run, next_day, similar, moved, result, first>>

\* ------------------------------------------- cell 847602fd: link the days
DaysOf(s) == {i \in DOMAIN days : days[i].stock = s}

\* Variant: ORDER BY day.date DESC.
RECURSIVE DateOrdersDesc(_)
DateOrdersDesc(S) ==
  IF S = {} THEN {<<>>}
  ELSE UNION {{<<m>> \o t : t \in DateOrdersDesc(S \ {m})} :
                m \in {x \in S : \A y \in S : days[x].date >= days[y].date}}

\* ORDER BY day.date ASC: every order of the ids in S that ascends by date
\* (rows of equal date come in an order Cypher does not define).
RECURSIVE DateOrders(_)
DateOrders(S) ==
  IF S = {} THEN {<<>>}
  ELSE UNION {{<<m>> \o t : t \in DateOrders(S \ {m})} :
                m \in {x \in S : \A y \in S : days[x].date <= days[y].date}}

\* collect(day.close): the non-null closes, in order.
RECURSIVE CollectClose(_)
CollectClose(nodes) ==
  IF nodes = <<>> THEN <<>>
  ELSE LET c == days[Head(nodes)].close
       IN (IF c = NULL THEN <<>> ELSE <<c>>) \o CollectClose(Tail(nodes))

\* One more relationship from a to b beside those that exist.
AddRel(rels, a, b) ==
  rels \cup {<<a, b, 1 + Cardinality({r \in rels : r[1] = a /\ r[2] = b})>>}

\* apoc.nodes.link(nodes, 'NEXT_DAY'): a relationship between each node and the next.
RECURSIVE NodesLink(_, _)
NodesLink(rels, nodes) ==
  IF Len(nodes) < 2 THEN rels
  ELSE NodesLink(AddRel(rels, nodes[1], nodes[2]), Tail(nodes))

RECURSIVE LinkAll(_, _, _)
LinkAll(rels, order, S) ==
  IF S = {} THEN rels
  ELSE LET s == CHOOSE x \in S : TRUE
       IN LinkAll(NodesLink(rels, order[s]), order, S \ {s})

LinkDays ==
  /\ pc = "link"
  /\ \E order \in FunProd([s \in stocks |-> DateOrders(DaysOf(s))]) :
       /\ close_array' = [s \in stocks |-> CollectClose(order[s])]
       /\ next_day' = LinkAll(next_day, order, stocks)
  /\ pc' = "pearson"
  /\ UNCHANGED <<csv, run, stocks, days, similar, comm, super, moved, louvain,
                 slope, result, first>>

\* ------------------------- cell 8b3ff0dd: gds.alpha.similarity.pearson.write
\* Pearson's r of two weight lists over their first min(length) entries, as
\* num / sqrt(den2); an undefined r (a constant or empty list) counts as 0.
Pearson(xs, ys) ==
  LET n == Min(Len(xs), Len(ys))
      sx == SumOver(xs, 1..n)
      sy == SumOver(ys, 1..n)
      sxy == SumOver([i \in 1..n |-> xs[i] * ys[i]], 1..n)
      sxx == SumOver([i \in 1..n |-> xs[i] * xs[i]], 1..n)
      syy == SumOver([i \in 1..n |-> ys[i] * ys[i]], 1..n)
      cov == n * sxy - sx * sy
      vx == n * sxx - sx * sx
      vy == n * syy - sy * sy
  IN IF vx * vy = 0 THEN [num |-> 0, den2 |-> 1] ELSE [num |-> cov, den2 |-> vx * vy]

\* r >= q as numbers.
ScoreGE(r, q) ==
  IF r.num >= 0
  THEN q.num < 0 \/ r.num * r.num * q.den2 >= q.num * q.num * r.den2
  ELSE q.num < 0 /\ r.num * r.num * q.den2 <= q.num * q.num * r.den2

Cutoff == [num |-> CutoffNum, den2 |-> CutoffDen * CutoffDen]

\* Variant: the cutoff applied to the magnitude of the coefficient.
PassesCutoffMagnitude(r) ==
  r.num # 0 /\ ScoreGE([num |-> IF r.num < 0 THEN 0 - r.num ELSE r.num, den2 |-> r.den2],
                       [num |-> CutoffNum, den2 |-> CutoffDen * CutoffDen])

\* similarityCutoff: a pair is dropped when its similarity is 0 or below the cutoff.
PassesCutoff(r) == r.num # 0 /\ ScoreGE(r, Cutoff)

Similarity(s, t) == Pearson(close_array[s], close_array[t])

\* topK: the K most similar items of s among those that pass the cutoff
\* (which of several equally similar items at the boundary is not defined).
TopKSets(s) ==
  LET cand == {t \in stocks \ {s} : PassesCutoff(Similarity(s, t))}
      n == Min(topK, Cardinality(cand))
  IN {K \in SUBSET cand :
        /\ Cardinality(K) = n
        /\ \A k \in K : \A c \in cand \ K : ScoreGE(Similarity(s, k), Similarity(s, c))}

\* Variant: a pair kept from both sides written once, as one relationship.
WriteSimilarOnce(rels, kept) ==
  rels \cup {[item1 |-> p[1], item2 |-> p[2], score |-> Similarity(p[1], p[2]),
              k |-> 1 + Cardinality({r \in rels : r.item1 = p[1] /\ r.item2 = p[2]})] :
              p \in {q \in stocks \X stocks :
                       /\ q[2] \in kept[q[1]]
                       /\ ~(q[1] \in kept[q[2]] /\ q[2] < q[1])}}

\* write: one SIMILAR relationship item1 -> item2 per kept pair, beside those that exist.
WriteSimilar(rels, kept) ==
  rels \cup {[item1 |-> p[1], item2 |-> p[2], score |-> Similarity(p[1], p[2]),
              k |-> 1 + Cardinality({r \in rels : r.item1 = p[1] /\ r.item2 = p[2]})] :
              p \in {q \in stocks \X stocks : q[2] \in kept[q[1]]}}

PearsonWrite ==
  /\ pc = "pearson"
  /\ \E kept \in FunProd([s \in stocks |-> TopKSets(s)]) :
       similar' = WriteSimilar(similar, kept)
  /\ pc' = "louvain"
  /\ UNCHANGED <<csv, run, stocks, days, next_day, close_array, comm, super, moved,
                 louvain, slope, result, first>>

\* ------------------------------------- cell f59216e2: gds.louvain.write
\* Variant: the starting communities written on the nodes before the levels run.
LouvainStartWriting ==
  /\ pc = "louvain"
  /\ comm' = [s \in stocks |-> s]
  /\ super' = [s \in stocks |-> s]
  /\ louvain' = [s \in stocks |-> s]
  /\ moved' = FALSE
  /\ pc' = "louvain_level"
  /\ UNCHANGED <<csv, run, stocks, days, next_day, close_array, similar,
                 slope, result, first>>

\* The projected graph: Stock nodes and SIMILAR relationships in their own
\* direction (orientation NATURAL), unweighted and not aggregated: the weight
\* from a to b is the number of relationships from a to b.
Weight(a, b) ==
  IF a = b THEN 0
  ELSE Cardinality({r \in similar : r.item1 = a /\ r.item2 = b})

\* The weight of the relationships from the nodes of S to the nodes of C, and
\* the out-degree of a node.
Between(S, C) == SumOver([p \in S \X C |-> Weight(p[1], p[2])], S \X C)
Degree(a) == Between({a}, stocks)
DegreeSum(S) == SumOver([a \in S |-> Degree(a)], S)

Members(c) == {s \in stocks : comm[s] = c}
LevelNode(u) == {s \in stocks : super[s] = u}

\* The modularity gained by putting the isolated node set S into community C,
\* times the square of the total weight: the weight from S into C against
\* the product of the two out-degree sums over the total.
Gain(S, C) == DegreeSum(stocks) * Between(S, C) - DegreeSum(C) * DegreeSum(S)

\* The communities of the nodes that level node u has a relationship to and
\* gains most by joining, when
\* that is more than it gains by staying.
BestMoves(u) ==
  LET S == LevelNode(u)
      own == comm[CHOOSE s \in S : TRUE]
      stay == Gain(S, Members(own) \ S)
      near == {comm[t] : t \in {x \in stocks \ S : Between(S, {x}) > 0}} \ {own}
  IN {d \in near : /\ Gain(S, Members(d)) > stay
                   /\ \A e \in near : Gain(S, Members(d)) >= Gain(S, Members(e))}

LevelNodes == {super[s] : s \in stocks}

\* The graph is projected and every node starts in a community of its own.
\* The projection names the relationship type SIMILAR, which the library
\* refuses when the database has no such type: whether the type exists after
\* a similarity write that kept no pair is not decided by the notebook, so
\* with no SIMILAR relationship the query either runs or raises.
LouvainStart ==
  /\ pc = "louvain"
  /\ \/ /\ comm' = [s \in stocks |-> s]
        /\ super' = [s \in stocks |-> s]
        /\ moved' = FALSE
        /\ pc' = "louvain_level"
     \/ /\ similar = {}
        /\ pc' = "louvain_failed"
        /\ UNCHANGED <<comm, super, moved>>
  /\ UNCHANGED <<csv, run, stocks, days, next_day, close_array, similar, louvain,
                 slope, result, first>>

\* Local moving: some node of the level joins its best neighbouring community.
LouvainMove ==
  /\ pc = "louvain_level"
  /\ \E u \in LevelNodes : \E d \in BestMoves(u) :
       comm' = [s \in stocks |-> IF super[s] = u THEN d ELSE comm[s]]
  /\ moved' = TRUE
  /\ UNCHANGED <<csv, pc, run, stocks, days, next_day, close_array, similar, super,
                 louvain, slope, result, first>>

\* No node can gain: the communities become the nodes of the next level.
LouvainAggregate ==
  /\ pc = "louvain_level"
  /\ moved
  /\ \A u \in LevelNodes : BestMoves(u) = {}
  /\ super' = comm
  /\ moved' = FALSE
  /\ UNCHANGED <<csv, pc, run, stocks, days, next_day, close_array, similar, comm,
                 louvain, slope, result, first>>

\* Variant: the property written on the nodes that have a relationship only.
LouvainWriteLinked ==
  /\ pc = "louvain_level"
  /\ ~moved
  /\ \A u \in LevelNodes : BestMoves(u) = {}
  /\ louvain' = [s \in stocks |-> IF Degree(s) = 0 THEN NULL ELSE comm[s]]
  /\ comm' = [s \in stocks |-> NULL]
  /\ super' = [s \in stocks |-> NULL]
  /\ pc' = "labels"
  /\ UNCHANGED <<csv, run, stocks, days, next_day, close_array, similar, moved,
                 slope, result, first>>

\* A level that moved nothing ends the run: writeProperty 'louvain' on every node.
LouvainWrite ==
  /\ pc = "louvain_level"
  /\ ~moved
  /\ \A u \in LevelNodes : BestMoves(u) = {}
  /\ louvain' = [s \in stocks |-> comm[s]]
  /\ comm' = [s \in stocks |-> NULL]
  /\ super' = [s \in stocks |-> NULL]
  /\ pc' = "labels"
  /\ UNCHANGED <<csv, run, stocks, days, next_day, close_array, similar, moved,
                 slope, result, first>>

\* ------------------------------ cell ca47c1d9: apoc.create.addLabels
\* Variant: the index cell left out, the regression cell run next.
AddLabelsThenRegr ==
  /\ pc = "labels"
  /\ days' = [i \in DOMAIN days |->
                [days[i] EXCEPT !.labels = @ \cup {days[i].stock}]]
  /\ pc' = "regr"
  /\ UNCHANGED <<csv, run, stocks, next_day, close_array, similar, comm, super,
                 moved, louvain, slope, result, first>>

AddLabels ==
  /\ pc = "labels"
  /\ days' = [i \in DOMAIN days |->
                [days[i] EXCEPT !.labels = @ \cup {days[i].stock}]]
  /\ pc' = "index"
  /\ UNCHANGED <<csv, run, stocks, next_day, close_array, similar, comm, super,
                 moved, louvain, slope, result, first>>

\* ------------------------------------ cell ccef7f2c: SET next_day.index
\* WHERE NOT ()-[:NEXT_DAY]->(day)
Heads == {i \in DOMAIN days : \A r \in next_day : r[2] # i}

\* MATCH p=(day)-[:NEXT_DAY*0..]->(next_day): the paths from n that use no
\* relationship twice, each as <<end node, length>>.
RECURSIVE Paths(_, _)
Paths(n, used) ==
  {<<n, Cardinality(used)>>} \cup
  UNION {Paths(r[2], used \cup {r}) : r \in {q \in next_day \ used : q[1] = n}}

\* SET next_day.index = length(p), once per path: with several paths to a node
\* the last one written stays, and Cypher does not define which that is.
SetIndex ==
  /\ pc = "index"
  /\ LET paths == UNION {Paths(h, {}) : h \in Heads}
         lens(i) == {p[2] : p \in {q \in paths : q[1] = i}}
     IN \E idx \in FunProd([i \in DOMAIN days |->
                              IF lens(i) = {} THEN {days[i].index} ELSE lens(i)]) :
          days' = [i \in DOMAIN days |-> [days[i] EXCEPT !.index = idx[i]]]
  /\ pc' = "regr"
  /\ UNCHANGED <<csv, run, stocks, next_day, close_array, similar, comm, super,
                 moved, louvain, slope, result, first>>

\* ------------------------------------------ cell 2880d629: apoc.math.regr
\* Variant: 0 in place of NaN.
RegrZero(label) ==
  LET pts == {i \in DOMAIN days : /\ label \in days[i].labels
                                  /\ days[i].index # NULL
                                  /\ days[i].close # NULL}
      sumXX == SumOver([i \in pts |-> days[i].index * days[i].index], pts)
      sumXY == SumOver([i \in pts |-> days[i].index * days[i].close], pts)
  IN IF Cardinality(pts) < 2 \/ sumXX = 0 THEN [kind |-> "num", num |-> 0, den |-> 1]
     ELSE [kind |-> "num", num |-> sumXY, den |-> sumXX]

\* apoc.math.regr(label, 'close', 'index'): over the nodes with the label that
\* have both properties, the slope of the least-squares line through the
\* origin (a regression without intercept), sum(x*y) / sum(x*x); NaN with fewer
\* than two points or when sum(x*x) is 0.
Regr(label) ==
  LET pts == {i \in DOMAIN days : /\ label \in days[i].labels
                                  /\ days[i].index # NULL
                                  /\ days[i].close # NULL}
      sumXX == SumOver([i \in pts |-> days[i].index * days[i].index], pts)
      sumXY == SumOver([i \in pts |-> days[i].index * days[i].close], pts)
  IN IF Cardinality(pts) < 2 \/ sumXX = 0 THEN NaN
     ELSE [kind |-> "num", num |-> sumXY, den |-> sumXX]

SetSlope ==
  /\ pc = "regr"
  /\ slope' = [s \in stocks |-> Regr(s)]
  /\ pc' = "recommend"
  /\ UNCHANGED <<csv, run, stocks, days, next_day, close_array, similar, comm,
                 super, moved, louvain, result, first>>

\* ------------------------------------- cell d3f6c3fe: the recommendation
\* Cypher's order of values for ORDER BY: null above NaN above every number.
OrderGE(a, b) ==
  CASE a.kind = "null" -> TRUE
    [] b.kind = "null" -> FALSE
    [] a.kind = "NaN" -> TRUE
    [] b.kind = "NaN" -> FALSE
    [] OTHER -> a.num * b.den >= b.num * a.den

\* Variant: ORDER BY slope, ascending.
RECURSIVE SlopeOrdersAsc(_)
SlopeOrdersAsc(S) ==
  IF S = {} THEN {<<>>}
  ELSE UNION {{<<m>> \o t : t \in SlopeOrdersAsc(S \ {m})} :
                m \in {x \in S : \A y \in S : OrderGE(slope[y], slope[x])}}

\* ORDER BY slope DESC: every order of the tickers in S that descends by slope
\* (tickers of equal slope come in an order Cypher does not define).
RECURSIVE SlopeOrders(_)
SlopeOrders(S) ==
  IF S = {} THEN {<<>>}
  ELSE UNION {{<<m>> \o t : t \in SlopeOrders(S \ {m})} :
                m \in {x \in S : \A y \in S : OrderGE(slope[x], slope[y])}}

\* Variant: the list not cut.
TakeAll(list, n) == list

\* list[..n]
Take(list, n) == SubSeq(list, 1, Min(n, Len(list)))

\* RETURN community, collect(ticker)[..3]: one row per community, its tickers
\* in the order of the sorted rows.
Collect(order) ==
  [c \in {louvain[s] : s \in stocks} |->
     Take(SelectSeq(order, LAMBDA t : louvain[t] = c), topN)]

Recommend ==
  /\ pc = "recommend"
  /\ \E order \in SlopeOrders(stocks) : result' = Collect(order)
  /\ pc' = "done"
  /\ UNCHANGED <<csv, run, stocks, days, next_day, close_array, similar, comm,
                 super, moved, louvain, slope, first>>

\* ------------------------------------------------------------ the notebook
\* An empty database, the notebook at its first query.
Start ==
  /\ pc = "load"
  /\ run = 1
  /\ stocks = {}
  /\ days = <<>>
  /\ next_day = {}
  /\ close_array = <<>>
  /\ similar = {}
  /\ comm = <<>>
  /\ super = <<>>
  /\ moved = FALSE
  /\ louvain = <<>>
  /\ slope = <<>>
  /\ result = <<>>
  /\ first = <<>>

\* The notebook is run again from its first query, on the database as it is
\* (no query of the notebook deletes anything).
Rerun ==
  /\ pc = "done"
  /\ run < MaxRuns
  /\ run' = run + 1
  /\ first' = [stocks |-> stocks, days |-> days, close_array |-> close_array,
               similar |-> similar, louvain |-> louvain, result |-> result]
  /\ pc' = "load"
  /\ UNCHANGED <<csv, stocks, days, next_day, close_array, similar, comm, super,
                 moved, louvain, slope, result>>

Init ==
  /\ csv \in NoisyCsvs(MaxRows) \cup CleanCsvs(NumClean, MaxCleanDays)
             \cup ShortCsvs(NumShort, MaxCleanDays)
  /\ Start

Next ==
  \/ LoadCsv
  \/ LinkDays
  \/ PearsonWrite
  \/ LouvainStart
  \/ LouvainMove
  \/ LouvainAggregate
  \/ LouvainWrite
  \/ AddLabels
  \/ SetIndex
  \/ SetSlope
  \/ Recommend

Spec == Init /\ [][Next]_vars

InitRerun ==
  /\ csv \in NoisyCsvs(MaxRerunRows) \cup CleanCsvs(NumRerunClean, MaxRerunDays)
  /\ Start

NextRerun == Next \/ Rerun

SpecRerun == InitRerun /\ [][NextRerun]_vars

\* ====================================================================
\* Properties
\* ====================================================================
\* The cells in notebook order; a cell has run when pc is past it.
CellNo(p) ==
  CASE p = "load" -> 1 [] p = "link" -> 2 [] p = "pearson" -> 3
    [] p = "louvain" -> 4 [] p = "louvain_level" -> 4
    [] p = "louvain_failed" -> 4 [] p = "labels" -> 5
    [] p = "index" -> 6 [] p = "regr" -> 7 [] p = "recommend" -> 8
    [] p = "done" -> 9 [] OTHER -> 0
Past(cell) == CellNo(pc) > CellNo(cell)

Range(list) == {list[i] : i \in DOMAIN list}
Community(c) == {s \in stocks : louvain[s] = c}

\* a >= b as floats: false as soon as either is NaN or absent.
FloatGE(a, b) == a.kind = "num" /\ b.kind = "num" /\ a.num * b.den >= b.num * a.den

\* ------------------------------------------------------------------ C1
\* C1: every list the recommendation returns has at most topN entries, holds
\* no symbol twice, lists its symbols in non-increasing order of slope, and
\* holds only symbols of the row's community.
C1_ListsBoundedSortedOwn ==
  (pc = "done" /\ run = 1) =>
    \A c \in DOMAIN result :
      LET l == result[c]
      IN /\ Len(l) <= topN
         /\ \A i, j \in DOMAIN l : i # j => l[i] # l[j]
         /\ \A i \in DOMAIN l : \A j \in DOMAIN l :
              i < j => FloatGE(slope[l[i]], slope[l[j]])
         /\ \A i \in DOMAIN l : l[i] \in stocks /\ louvain[l[i]] = c

\* A community of more than topN tickers whose list is cut to topN and
\* descends strictly somewhere.
C1_Witness ==
  /\ pc = "done"
  /\ \E c \in DOMAIN result :
       /\ Cardinality(Community(c)) > topN
       /\ Len(result[c]) = topN
       /\ ~FloatGE(slope[result[c][2]], slope[result[c][1]])

\* ------------------------------------------------------------------ C2
\* x comes before y in the reference order: by slope descending, then by
\* symbol ascending.
RefBefore(x, y) ==
  \/ ~OrderGE(slope[y], slope[x])
  \/ OrderGE(slope[x], slope[y]) /\ OrderGE(slope[y], slope[x]) /\ x < y

RECURSIVE RefList(_)
RefList(M) ==
  IF M = {} THEN <<>>
  ELSE LET m == CHOOSE x \in M : \A y \in M \ {x} : RefBefore(x, y)
       IN <<m>> \o RefList(M \ {m})

Reference(c) ==
  LET l == RefList(Community(c))
  IN SubSeq(l, 1, IF Len(l) < topN THEN Len(l) ELSE topN)

\* C2 as stated: every community's list is the reference result, its tickers
\* by slope descending with ties in ascending symbol order, cut to
\* min(N, size).
C2_Original ==
  (pc = "done" /\ run = 1) => \A c \in DOMAIN result : result[c] = Reference(c)

Isolated(s) == \A r \in similar : r.item1 # s /\ r.item2 # s

\* C2, amended: every community has a list; it holds min(N, size) distinct
\* tickers of the community, in an order that descends by slope, and no
\* ticker left out has a higher slope than one listed (tickers of equal slope
\* come in any order); a ticker without similarity edge is listed alone.
C2_Amended ==
  (pc = "done" /\ run = 1) =>
    /\ DOMAIN result = {louvain[s] : s \in stocks}
    /\ \A c \in DOMAIN result :
         LET l == result[c]
             M == Community(c)
         IN /\ Len(l) = (IF Cardinality(M) < topN THEN Cardinality(M) ELSE topN)
            /\ Range(l) \subseteq M
            /\ Cardinality(Range(l)) = Len(l)
            /\ \A i \in DOMAIN l : \A j \in DOMAIN l :
                 i < j => OrderGE(slope[l[i]], slope[l[j]])
            /\ \A x \in Range(l) : \A y \in M \ Range(l) : OrderGE(slope[x], slope[y])
    /\ \A s \in stocks : Isolated(s) => result[louvain[s]] = <<s>>

\* Two tickers of equal slope listed in descending symbol order, and an
\* isolated ticker beside a community of several.
C2_Witness ==
  /\ pc = "done"
  /\ \E c \in DOMAIN result : \E i \in DOMAIN result[c] : \E j \in DOMAIN result[c] :
       /\ i < j
       /\ result[c][i] > result[c][j]
       /\ OrderGE(slope[result[c][j]], slope[result[c][i]])
  /\ \E s \in stocks : Isolated(s)

\* ------------------------------------------------------------------ C3
\* C3: once the days are linked and indexed, the index values of a ticker's
\* n days are exactly 0..n-1, each used once, and a day of an earlier date has
\* a smaller index, in whatever order the rows arrived.
C3_IndexContiguousByDate ==
  (Past("index") /\ run = 1) =>
    \A s \in stocks :
      LET D == DaysOf(s)
      IN /\ {days[i].index : i \in D} = 0..(Cardinality(D) - 1)
         /\ \A i \in D : \A j \in D : i # j => days[i].index # days[j].index
         /\ \A i \in D : \A j \in D :
              days[i].date < days[j].date => days[i].index < days[j].index

\* A ticker whose rows arrived in descending date order: the day created
\* second has index 0.
C3_Witness ==
  /\ Past("index")
  /\ \E i \in DOMAIN days : \E j \in DOMAIN days :
       /\ i < j
       /\ days[i].stock = days[j].stock
       /\ days[i].date > days[j].date
       /\ days[j].index = 0
       /\ days[i].index = 1

\* ------------------------------------------------------------------ C4
RowsOf(s) == {i \in DOMAIN csv : csv[i].Name = s}

\* C4 as stated: of several rows with the same (ticker, date) only the first
\* is kept, so a ticker's dates are pairwise distinct and its close sequence
\* holds one value per date.
C4_Original ==
  (Past("link") /\ run = 1) =>
    \A s \in stocks :
      /\ \A i \in DaysOf(s) : \A j \in DaysOf(s) : i # j => days[i].date # days[j].date
      /\ Len(close_array[s]) = Cardinality({csv[i].Date : i \in RowsOf(s)})

\* C4, amended: every row of the file, a repeated (ticker, date) included,
\* creates a TradingDay of its own; along NEXT_DAY the dates of a ticker never
\* decrease (they repeat where rows repeat a date), and the close sequence
\* holds one value per row with a numeric close.
C4_Amended ==
  (Past("link") /\ run = 1) =>
    /\ Len(days) = Len(csv)
    /\ \A i \in DOMAIN days :
         days[i].stock = csv[i].Name /\ days[i].date = csv[i].Date
    /\ \A r \in next_day :
         days[r[1]].stock = days[r[2]].stock /\ days[r[1]].date <= days[r[2]].date
    /\ \A s \in stocks :
         /\ Cardinality({r \in next_day : days[r[1]].stock = s}) = Cardinality(RowsOf(s)) - 1
         /\ Len(close_array[s]) = Cardinality({i \in RowsOf(s) : csv[i].Close # BadText})

\* Two days of one ticker with the same date, joined by NEXT_DAY.
C4_Witness ==
  /\ Past("link")
  /\ \E r \in next_day : r[1] # r[2] /\ days[r[1]].date = days[r[2]].date

\* ------------------------------------------------------------------ C5
ValidRow(row) ==
  /\ row.Name # NULL
  /\ row.Date # BadText /\ row.Close # BadText /\ row.Volume # BadText
ValidRows == SelectSeq(csv, ValidRow)

\* C5 as stated: a row with an unparsable date or a non-numeric close or
\* volume is rejected without aborting: the run goes on, exactly the valid
\* rows become TradingDays, and no day lacks its date, close or volume.
C5_Original ==
  (pc # "load" /\ run = 1) =>
    /\ pc # "failed"
    /\ Len(days) = Len(ValidRows)
    /\ \A i \in DOMAIN days :
         /\ i <= Len(ValidRows)
         /\ days[i].stock = ValidRows[i].Name
         /\ days[i].date = ValidRows[i].Date
         /\ days[i].close # NULL
         /\ days[i].volume # NULL

\* C5, amended: a row with an unparsable date or without a ticker name makes
\* the loading query fail:
\* the run ends there, and only the rows of the batches of 1000 committed
\* before the failing row are in the database (none, for a shorter file); a
\* row with a non-numeric close or volume is loaded like any other, as a
\* TradingDay without that property.
C5_Amended ==
  (pc # "load" /\ run = 1) =>
    LET bad == {i \in DOMAIN csv : csv[i].Date = BadText \/ csv[i].Name = NULL}
    IN /\ pc = "failed" <=> bad # {}
       /\ \A i \in DOMAIN days :
            /\ i <= Len(csv)
            /\ days[i].stock = csv[i].Name
            /\ days[i].date = csv[i].Date
            /\ days[i].date # BadText
            /\ days[i].stock # NULL
            /\ days[i].close = (IF csv[i].Close = BadText THEN NULL ELSE csv[i].Close)
            /\ days[i].volume = (IF csv[i].Volume = BadText THEN NULL ELSE csv[i].Volume)
       /\ bad = {} => Len(days) = Len(csv)
       /\ bad # {} =>
            /\ Len(days) % PeriodicCommit = 0
            /\ \A i \in bad : Len(days) < i
            /\ \E i \in bad : i - Len(days) <= PeriodicCommit
       /\ stocks = {days[i].stock : i \in DOMAIN days}

\* A file of three rows, the second with an unparsable date between two
\* valid ones: the run has failed.
C5_Witness ==
  /\ pc = "failed"
  /\ Len(csv) = 3
  /\ ValidRow(csv[1]) /\ csv[2].Date = BadText /\ ValidRow(csv[3])
  /\ days = <<>>

\* ------------------------------------------------------------------ C6
Out(s) == {r.item2 : r \in {q \in similar : q.item1 = s}}
Abs(r) == [num |-> IF r.num < 0 THEN 0 - r.num ELSE r.num, den2 |-> r.den2]
\* r >= similarityCutoff, r a coefficient num / sqrt(den2)
AtLeastCutoff(r) ==
  r.num > 0 /\ r.num * r.num * CutoffDen * CutoffDen >= CutoffNum * CutoffNum * r.den2
Coefficient(s, t) == Pearson(close_array[s], close_array[t])

\* C6 as stated: no self-loop, every kept weight of magnitude >= cutoff, at
\* most topK kept peers per ticker, and these are the topK peers of highest
\* magnitude among those with |coefficient| >= cutoff.
C6_Original ==
  (Past("pearson") /\ run = 1) =>
    /\ \A r \in similar : r.item1 # r.item2 /\ AtLeastCutoff(Abs(r.score))
    /\ \A s \in stocks :
         LET cand == {t \in stocks \ {s} : AtLeastCutoff(Abs(Coefficient(s, t)))}
         IN /\ Cardinality(Out(s)) <= topK
            /\ Cardinality(Out(s)) = Min(topK, Cardinality(cand))
            /\ Out(s) \subseteq cand
            /\ \A k \in Out(s) : \A c \in cand \ Out(s) :
                 ScoreGE(Abs(Coefficient(s, k)), Abs(Coefficient(s, c)))

\* C6, amended: no self-loop, every kept weight >= cutoff (so of magnitude >=
\* cutoff), at most topK kept peers per ticker, and these are the topK peers
\* of highest signed coefficient among those with coefficient >= cutoff: a
\* peer of coefficient -0.9 is never kept.
C6_Amended ==
  (Past("pearson") /\ run = 1) =>
    /\ \A r \in similar :
         /\ r.item1 # r.item2
         /\ r.score = Coefficient(r.item1, r.item2)
         /\ AtLeastCutoff(r.score)
         /\ AtLeastCutoff(Abs(r.score))
    /\ \A s \in stocks :
         LET cand == {t \in stocks \ {s} : AtLeastCutoff(Coefficient(s, t))}
         IN /\ Cardinality(Out(s)) <= topK
            /\ Cardinality(Out(s)) = Min(topK, Cardinality(cand))
            /\ Out(s) \subseteq cand
            /\ \A k \in Out(s) : \A c \in cand \ Out(s) :
                 ScoreGE(Coefficient(s, k), Coefficient(s, c))

\* A ticker with more than topK peers above the cutoff, one of them left out
\* with a lower coefficient than those kept; a peer of negative coefficient
\* of magnitude above the cutoff, and one of positive coefficient below it.
C6_Witness ==
  /\ Past("pearson")
  /\ \E s \in stocks : \E c \in stocks \ ({s} \cup Out(s)) :
       /\ Cardinality(Out(s)) = topK
       /\ AtLeastCutoff(Coefficient(s, c))
       /\ \E k \in Out(s) : ~ScoreGE(Coefficient(s, c), Coefficient(s, k))
  /\ \E s \in stocks : \E t \in stocks :
       Coefficient(s, t).num < 0 /\ AtLeastCutoff(Abs(Coefficient(s, t)))
  /\ \E s \in stocks : \E t \in stocks :
       Coefficient(s, t).num > 0 /\ ~AtLeastCutoff(Coefficient(s, t))

\* ------------------------------------------------------------------ C7
\* C7 as stated: the stored edges are unordered pairs, no two of them joining
\* the same two tickers.
C7_Original ==
  (Past("pearson") /\ run = 1) =>
    \A r \in similar : \A q \in similar :
      r # q => {r.item1, r.item2} # {q.item1, q.item2}

\* C7, amended: the stored edges are ordered pairs (ticker, kept peer), one
\* per pair: their number is the sum over the tickers of the peers each
\* keeps, and two tickers that keep each other are joined by two edges, one
\* each way.
C7_Amended ==
  (Past("pearson") /\ run = 1) =>
    LET cand(s) == {t \in stocks \ {s} : AtLeastCutoff(Coefficient(s, t))}
        kept == [s \in stocks |-> Min(topK, Cardinality(cand(s)))]
    IN /\ \A r \in similar : \A q \in similar :
            (r.item1 = q.item1 /\ r.item2 = q.item2) => r = q
       /\ Cardinality(similar) = SumOver(kept, stocks)
       /\ \A s \in stocks : \A t \in cand(s) :
            (Cardinality(cand(s)) <= topK /\ Cardinality(cand(t)) <= topK) =>
              /\ \E r \in similar : r.item1 = s /\ r.item2 = t
              /\ \E r \in similar : r.item1 = t /\ r.item2 = s

\* Two tickers joined both ways, and two joined one way only.
C7_Witness ==
  /\ Past("pearson")
  /\ \E r \in similar : \E q \in similar : r.item1 = q.item2 /\ r.item2 = q.item1
  /\ \E r \in similar : \A q \in similar : ~(r.item1 = q.item2 /\ r.item2 = q.item1)

\* ------------------------------------------------------------------ C8
\* The tickers joined to those of S by a path of similarity edges.
RECURSIVE Reach(_)
Reach(S) ==
  LET N == S \cup {r.item2 : r \in {q \in similar : q.item1 \in S}}
               \cup {r.item1 : r \in {q \in similar : q.item2 \in S}}
  IN IF N = S THEN S ELSE Reach(N)

\* C8: after community detection every ticker, one without similarity edge
\* included, has a communityId, and two tickers joined by no path of
\* similarity edges never have the same one.
C8_PartitionTotalWithinComponents ==
  (Past("louvain") /\ run = 1) =>
    /\ DOMAIN louvain = stocks
    /\ \A s \in stocks : louvain[s] # NULL
    /\ \A s \in stocks : \A t \in stocks :
         louvain[s] = louvain[t] => t \in Reach({s})

\* An isolated ticker in a community of its own beside a community of two or
\* more.
C8_Witness ==
  /\ Past("louvain")
  /\ \E s \in stocks : Isolated(s) /\ Community(louvain[s]) = {s}
  /\ \E s \in stocks : Cardinality(Community(louvain[s])) >= 2

\* ------------------------------------------------------------------ C9
SingleDay(s) == Cardinality(DaysOf(s)) = 1

\* C9 as stated: a ticker with exactly one TradingDay gets the slope 0.0 (and
\* a flag: no stage writes one), trend scoring completes and every community
\* gets its list.
C9_Original ==
  (Past("regr") /\ run = 1) =>
    /\ \A s \in stocks : SingleDay(s) => slope[s].kind = "num" /\ slope[s].num = 0
    /\ pc = "done" => DOMAIN result = {louvain[s] : s \in stocks}

\* C9, amended: a ticker with exactly one TradingDay does not by itself stop
\* the run. The run stops in the load cell only on a row with an unparsable
\* date or without a name, and in the Louvain cell only when the database
\* holds no SIMILAR relationship at all (as when every ticker has a single
\* day), where the query may raise. When the run goes on, trend scoring gives
\* every ticker a slope, NaN for the single-day ticker, which no stage flags,
\* and the recommendation returns a non-empty list for every community, the
\* single-day ticker being alone in its own.
C9_Amended ==
  /\ pc = "failed" =>
       \E i \in DOMAIN csv : csv[i].Date = BadText \/ csv[i].Name = NULL
  /\ pc = "louvain_failed" => similar = {}
  /\ (Past("regr") /\ run = 1) =>
       /\ DOMAIN slope = stocks
       /\ \A s \in stocks : slope[s].kind # "null"
       /\ \A s \in stocks : SingleDay(s) => slope[s] = NaN
  /\ (pc = "done" /\ run = 1) =>
       /\ DOMAIN result = {louvain[s] : s \in stocks}
       /\ \A c \in DOMAIN result : result[c] # <<>>
       /\ \A s \in stocks : SingleDay(s) => result[louvain[s]] = <<s>>

\* A single-day ticker beside tickers of several days that are joined by
\* SIMILAR relationships and have numeric slopes, the recommendation done.
C9_Witness ==
  /\ pc = "done"
  /\ similar # {}
  /\ \E s \in stocks : SingleDay(s) /\ slope[s] = NaN /\ result[louvain[s]] = <<s>>
  /\ \E s \in stocks : \E t \in stocks :
       /\ s # t /\ ~SingleDay(s) /\ ~SingleDay(t)
       /\ slope[s].kind = "num" /\ louvain[s] = louvain[t]

\* ----------------------------------------------------------------- C10
Fields(day) == <<day.stock, day.date, day.close, day.volume>>
SamePartition(f, g) ==
  /\ DOMAIN f = DOMAIN g
  /\ \A s \in DOMAIN f : \A t \in DOMAIN f : (f[s] = f[t]) <=> (g[s] = g[t])

\* C10 as stated: a second run of all stages on the same rows leaves the same
\* tickers, TradingDay sequences, similarity edges, communities (up to the
\* ids) and recommendation lists as the first.
C10_Original ==
  (run = 2 /\ pc = "done") =>
    /\ stocks = first.stocks
    /\ Len(days) = Len(first.days)
    /\ close_array = first.close_array
    /\ similar = first.similar
    /\ SamePartition(louvain, first.louvain)
    /\ \A s \in stocks : result[louvain[s]] = first.result[first.louvain[s]]

\* C10, amended: a second run of all stages on the same rows, against the
\* database the first run left (the notebook deletes nothing), keeps the
\* ticker set but creates every TradingDay a second time, so that every
\* ticker has twice its days and a close sequence twice as long, and adds
\* its similarity edges to those of the first run.
C10_Amended ==
  (run = 2 /\ pc # "load") =>
    LET n == Len(first.days)
    IN /\ pc # "failed"
       /\ stocks = first.stocks
       /\ Len(days) = 2 * n
       /\ \A i \in 1..n :
            /\ Fields(days[i]) = Fields(first.days[i])
            /\ Fields(days[n + i]) = Fields(first.days[i])
       /\ first.similar \subseteq similar
       /\ Past("link") =>
            \A s \in stocks : Len(close_array[s]) = 2 * Len(first.close_array[s])
       /\ Past("pearson") =>
            \A r \in similar \ first.similar : r.k = 2

\* A second run that ends with other recommendation lists than the first,
\* and with more similarity edges.
C10_Witness ==
  /\ run = 2
  /\ pc = "done"
  /\ Cardinality(similar) > Cardinality(first.similar)
  /\ \E s \in stocks : result[louvain[s]] # first.result[first.louvain[s]]


\* ---------------------------------------------------------------- C11
\* What a step of one run may change of the graph built by the load cell.
WritesLouvain == pc = "louvain_level" /\ pc' = "labels"
WritesSlope == pc = "regr" /\ pc' = "recommend"
FrameStep ==
  /\ \A s \in stocks \cap stocks' :
       /\ louvain'[s] # louvain[s] =>
            WritesLouvain /\ louvain[s] = NULL /\ louvain'[s] # NULL
       /\ slope'[s] # slope[s] =>
            WritesSlope /\ slope[s] = NullSlope /\ slope'[s] # NullSlope
  /\ pc # "load" =>
       /\ stocks' = stocks
       /\ Len(days') = Len(days)
       /\ \A i \in DOMAIN days : Fields(days'[i]) = Fields(days[i])
  /\ similar' # similar => pc = "pearson" /\ similar \subseteq similar'
  /\ WritesLouvain => \A s \in stocks : louvain'[s] # NULL
  /\ WritesSlope => \A s \in stocks : slope'[s] # NullSlope

\* C11: in one run every ticker's louvain property is written once, by the
\* Louvain cell, and its slope once, by the regression cell; after the load
\* cell no cell changes the set of tickers, the number of trading days or a
\* day's ticker, date, close or volume, and SIMILAR relationships are created
\* by the Pearson cell only and never removed.
C11_FrameWriteOnce == [][FrameStep]_vars

\* The run is over for a file of several tickers: properties were written on
\* every ticker, labels and indices on the days, and relationships exist.
C11_Witness ==
  /\ pc = "done"
  /\ Cardinality(stocks) >= 2
  /\ similar # {}
  /\ \A s \in stocks : louvain[s] # NULL /\ slope[s] # NullSlope
  /\ \A i \in DOMAIN days : days[i].labels # {} /\ days[i].index # NULL
  /\ \E i \in DOMAIN days : days[i].index > 0


\* ---------------------------------------------------------------- C12
\* The days of s that have a close.
Priced(s) == {i \in DaysOf(s) : days[i].close # NULL}

\* list holds the closes of s, one per priced day, in an order of
\* non-decreasing date.
ClosesByDate(s, list) ==
  /\ Len(list) = Cardinality(Priced(s))
  /\ \E f \in [DOMAIN list -> Priced(s)] :
       /\ \A k \in DOMAIN list : \A l \in DOMAIN list : k # l => f[k] # f[l]
       /\ \A k \in DOMAIN list : list[k] = days[f[k]].close
       /\ \A k \in DOMAIN list : \A l \in DOMAIN list :
            k < l => days[f[k]].date <= days[f[l]].date

\* The days of s form one NEXT_DAY chain.
Chained(s) ==
  Cardinality({r \in next_day : r[1] \in DaysOf(s) /\ r[2] \in DaysOf(s)})
    = Cardinality(DaysOf(s)) - 1

StageStep ==
  /\ pc' # pc =>
       \/ pc = "load" /\ pc' = "failed"
       \/ pc = "louvain" /\ pc' = "louvain_failed"
       \/ pc = "louvain" /\ pc' = "louvain_level"
       \/ CellNo(pc') = CellNo(pc) + 1 /\ pc' \notin {"louvain_level", "louvain_failed"}
  /\ ~Past("load") => stocks = {} /\ days = <<>>
  /\ ~Past("link") => next_day = {} /\ \A s \in stocks : close_array[s] = NULL
  /\ ~Past("pearson") => similar = {}
  /\ ~Past("louvain") => \A s \in stocks : louvain[s] = NULL
  /\ ~Past("index") => \A i \in DOMAIN days : days[i].index = NULL
  /\ ~Past("regr") => \A s \in stocks : slope[s] = NullSlope
  /\ ~Past("recommend") => result = <<>>
  /\ pc = "pearson" =>
       \A s \in stocks : ClosesByDate(s, close_array[s]) /\ Chained(s)
  /\ pc = "regr" =>
       \A s \in stocks : /\ Chained(s)
                          /\ \A i \in DaysOf(s) : /\ days[i].index # NULL
                                                    /\ s \in days[i].labels
  /\ pc = "recommend" =>
       \A s \in stocks : slope[s] # NullSlope /\ louvain[s] # NULL

\* C12: the cells of one run take effect in notebook order, none before the
\* one before it has finished on every ticker: when the Pearson cell starts,
\* every ticker's close_array holds all its closes in date order and its days
\* are linked; when the regression cell starts, every day of every ticker is
\* linked, labelled and indexed; when the recommendation starts, every ticker
\* has a slope and a louvain property; and no cell's writes exist before the
\* cell has run.
C12_StagesInOrder == [][StageStep]_vars

\* The recommendation is about to read the properties of three tickers or
\* more, one of them with several days.
C12_Witness ==
  /\ pc = "recommend"
  /\ Cardinality(stocks) >= 3
  /\ \E s \in stocks : Cardinality(DaysOf(s)) >= 2
  /\ \E s \in stocks : \E t \in stocks : louvain[s] # louvain[t]

=============================================================================
